---- MODULE Spec2Model ----
(***************************************************************************)
(* Model of the fixed-capacity byte arena of src/memory_manager.rs:        *)
(* MemoryManager { memory, allocations, next_free } with its operations    *)
(* insert, read, update, delete and dump.                                  *)
(*                                                                         *)
(* The arena is a function from offsets 0..len-1 to bytes, the allocation  *)
(* table a function from the live ids to <<start, size>>.  Every method    *)
(* call is one action; the call, its arguments and what it returned are    *)
(* recorded in op, argId, argData, result, ret and out.                    *)
(***************************************************************************)
EXTENDS Integers, Sequences, FiniteSets, TLC

\* ------------------------------------------------------------------ bounds
\* The arena is [u8; 65535] in the source; the model checks a short arena.
Capacity == 2
\* Ids are 1..MaxId (u16 in the source).
MaxId == 2
\* The payloads are every byte sequence of at most MaxLen bytes, one that
\* fills the whole arena, and the one of tests::test_insert_out_of_space,
\* which is longer than the whole arena.
MaxLen == 1

\* The arena length of the concrete scenario of the specification.
ScenarioCapacity == 10

\* The byte values (u8 in the source).  The code copies bytes as they are
\* and writes none but 0 of its own, so 0 and one other value stand for all;
\* the other value is 255, a byte that is not valid UTF-8, so that the lossy
\* decoding of dump() shows.
Bytes == {0, 255}
Ids == 1..MaxId

\* All byte sequences of length 0..n over the set S.
SeqsUpTo(S, n) == UNION {[1..k -> S] : k \in 0..n}

\* vec![0; 65536]: one byte more than the arena holds.
TooLarge == [i \in 1..(Capacity + 1) |-> 0]

\* As many bytes as the arena holds: a zero byte, then non-zero bytes.
Full == [i \in 1..Capacity |-> IF i = 1 THEN 0 ELSE 255]

Data == SeqsUpTo(Bytes, MaxLen) \cup {Full, TooLarge}

\* The ids and payloads of the concrete scenario: "Hello", "Rust", "X", "Y".
ScenarioIds == 1..4
ScenarioData ==
    { <<72, 101, 108, 108, 111>>, <<82, 117, 115, 116>>, <<88>>, <<89>> }

VARIABLES
    memory,       \* self.memory: offset -> byte
    allocations,  \* self.allocations: id -> <<start, size>>
    next_free,    \* self.next_free
    panicked,     \* TRUE once a slice or index was out of bounds
    op,           \* the method called last
    argId,        \* its id argument (0 when it has none)
    argData,      \* its data argument (<<>> when it has none)
    result,       \* "Some" or "None": the Option it returned ("Unit": dump)
    ret,          \* the bytes read() returned inside Some
    out           \* the lines dump() printed

vars == <<memory, allocations, next_free, panicked,
          op, argId, argData, result, ret, out>>

\* ---------------------------------------------------------------- helpers
\* self.memory.len()
MemLen(mem) == Cardinality(DOMAIN mem)

\* [0; n]
Zeroed(n) == [i \in 0..(n - 1) |-> 0]

\* Whether the range a..b is a valid slice range of mem.
InBounds(mem, a, b) == a <= b /\ b <= MemLen(mem)

\* A slice that takes one byte more than asked for, when there is one.
SliceOverRead(mem, a, b) ==
    [i \in 1..(IF b < MemLen(mem) THEN b - a + 1 ELSE b - a) |-> mem[a + i - 1]]

\* mem[a..b].to_vec()
Slice(mem, a, b) == [i \in 1..(b - a) |-> mem[a + i - 1]]

\* A copy that stops one byte short of the payload.
CopyFromSliceShort(mem, start, data) ==
    [i \in DOMAIN mem |->
        IF start <= i /\ i < start + Len(data) - 1 THEN data[i - start + 1]
                                                   ELSE mem[i]]

\* mem[start..start + data.len()].copy_from_slice(&data)
CopyFromSlice(mem, start, data) ==
    [i \in DOMAIN mem |->
        IF start <= i /\ i < start + Len(data) THEN data[i - start + 1]
                                               ELSE mem[i]]

\* for i in a..b { mem[i] = 0 }
ZeroFill(mem, a, b) ==
    [i \in DOMAIN mem |-> IF a <= i /\ i < b THEN 0 ELSE mem[i]]

\* self.allocations.contains_key(&id)
ContainsKey(allocs, id) == id \in DOMAIN allocs

\* An entry recorded with its start one byte too far.
MapInsertShifted(allocs, id, entry) ==
    [k \in DOMAIN allocs \cup {id} |->
        IF k = id THEN <<entry[1] + 1, entry[2]>> ELSE allocs[k]]

\* self.allocations.insert(id, (start, size)) on an absent or present key
MapInsert(allocs, id, entry) ==
    [k \in DOMAIN allocs \cup {id} |-> IF k = id THEN entry ELSE allocs[k]]

\* A removal that leaves the table as it was.
MapRemoveNothing(allocs, id) == allocs

\* self.allocations.remove(&id)
MapRemove(allocs, id) == [k \in DOMAIN allocs \ {id} |-> allocs[k]]

\* A space check that refuses every payload once the arena is full.
FitsUnlessFull(nf, size, len) == nf < len /\ ~(nf + size > len)

\* A space check that lets a payload one byte too long pass.
FitsOneTooMany(nf, size, len) == ~(nf + size > len + 1)

\* A space check that refuses the payload that fits exactly.
FitsOffByOne(nf, size, len) == ~(nf + size >= len)

\* The space check of insert: NOT (next_free + size > memory.len())
Fits(nf, size, len) == ~(nf + size > len)

\* A cursor that is not advanced.
AdvanceForgotten(nf, size) == nf

\* A cursor advanced one byte too far.
AdvancePastEnd(nf, size) == nf + size + 1

\* self.next_free += size
Advance(nf, size) == nf + size

\* A growth check that lets a payload one byte longer than the region pass.
WithinRegionOffByOne(dataLen, size) == ~(dataLen > size + 1)

\* The growth check of update: NOT (data.len() > size)
WithinRegion(dataLen, size) == ~(dataLen > size)

\* An update whose padding runs one byte past the end of the region.
UpdatedMemoryPadsOneMore(mem, start, size, data) ==
    LET copied == CopyFromSlice(mem, start, data)
    IN  IF Len(data) < size
        THEN ZeroFill(copied, start + Len(data), start + size + 1)
        ELSE copied

\* An update that copies the data and leaves the old tail in place.
UpdatedMemoryNoPadding(mem, start, size, data) == CopyFromSlice(mem, start, data)

\* The arena after a successful update: the data, then the zero padding.
UpdatedMemory(mem, start, size, data) ==
    LET copied == CopyFromSlice(mem, start, data)
    IN  IF Len(data) < size
        THEN ZeroFill(copied, start + Len(data), start + size)
        ELSE copied

\* A delete that does not clear the region.
DeletedMemoryUntouched(mem, start, size) == mem

\* A delete that leaves the first byte of the region in place.
DeletedMemorySkipFirst(mem, start, size) == ZeroFill(mem, start + 1, start + size)

\* The arena after a successful delete.
DeletedMemory(mem, start, size) == ZeroFill(mem, start, start + size)

\* The value of MemoryManager::read(id): <<"Some", bytes>> or <<"None", <<>> >>
ReadValue(mem, allocs, id) ==
    IF ContainsKey(allocs, id)
    THEN <<"Some", Slice(mem, allocs[id][1], allocs[id][1] + allocs[id][2])>>
    ELSE <<"None", <<>> >>

\* String::from_utf8_lossy on a payload: a byte below 128 is the character
\* of that code; the only other byte of the payloads considered here, 255,
\* starts no UTF-8 sequence and becomes U+FFFD, one for each such byte.
ReplacementChar == 65533
FromUtf8Lossy(bytes) ==
    [i \in DOMAIN bytes |-> IF bytes[i] < 128 THEN bytes[i] ELSE ReplacementChar]

\* A dump that takes every region from the start of the arena.
DumpLinesFromZero(mem, allocs) ==
    { <<id, allocs[id][1], allocs[id][2],
        FromUtf8Lossy(Slice(mem, 0, allocs[id][2]))>>
      : id \in DOMAIN allocs }

\* The lines dump() prints, in the unspecified order of the HashMap.
DumpLines(mem, allocs) ==
    { <<id, allocs[id][1], allocs[id][2],
        FromUtf8Lossy(Slice(mem, allocs[id][1], allocs[id][1] + allocs[id][2]))>>
      : id \in DOMAIN allocs }

\* ------------------------------------------------------------------- state
\* MemoryManager::new() with an arena of len bytes.
New(len) ==
    /\ memory = Zeroed(len)
    /\ allocations = << >>
    /\ next_free = 0
    /\ panicked = FALSE
    /\ op = "new"
    /\ argId = 0
    /\ argData = << >>
    /\ result = "Unit"
    /\ ret = << >>
    /\ out = {}

Init == New(Capacity)

InitScenario == New(ScenarioCapacity)

\* What a call records about itself.
Called(name, id, data, res, bytes, lines) ==
    /\ op' = name
    /\ argId' = id
    /\ argData' = data
    /\ result' = res
    /\ ret' = bytes
    /\ out' = lines

\* A slice or index out of bounds aborts the process.
Panic(name, id, data) ==
    /\ panicked' = TRUE
    /\ Called(name, id, data, "Panic", << >>, {})
    /\ UNCHANGED <<memory, allocations, next_free>>

\* An insert without the duplicate check: the entry of a live id is replaced.
InsertNoDuplicateCheck(id, data) ==
    LET size == Len(data)
        start == next_free
    IN  /\ ~panicked
        /\ IF ~Fits(next_free, size, MemLen(memory))
           THEN /\ Called("insert", id, data, "None", << >>, {})
                /\ UNCHANGED <<memory, allocations, next_free, panicked>>
           ELSE /\ memory' = CopyFromSlice(memory, start, data)
                /\ allocations' = MapInsert(allocations, id, <<start, size>>)
                /\ next_free' = Advance(next_free, size)
                /\ Called("insert", id, data, "Some", << >>, {})
                /\ UNCHANGED panicked

\* MemoryManager::insert
Insert(id, data) ==
    LET size == Len(data)
        start == next_free
    IN  /\ ~panicked
        /\ IF ContainsKey(allocations, id)
           THEN /\ Called("insert", id, data, "None", << >>, {})
                /\ UNCHANGED <<memory, allocations, next_free, panicked>>
           ELSE IF ~Fits(next_free, size, MemLen(memory))
           THEN /\ Called("insert", id, data, "None", << >>, {})
                /\ UNCHANGED <<memory, allocations, next_free, panicked>>
           ELSE IF ~InBounds(memory, start, start + size)
           THEN Panic("insert", id, data)
           ELSE /\ memory' = CopyFromSlice(memory, start, data)
                /\ allocations' = MapInsert(allocations, id, <<start, size>>)
                /\ next_free' = Advance(next_free, size)
                /\ Called("insert", id, data, "Some", << >>, {})
                /\ UNCHANGED panicked

\* MemoryManager::read
Read(id) ==
    /\ ~panicked
    /\ IF ContainsKey(allocations, id)
          /\ ~InBounds(memory, allocations[id][1],
                       allocations[id][1] + allocations[id][2])
       THEN Panic("read", id, << >>)
       ELSE /\ Called("read", id, << >>,
                      ReadValue(memory, allocations, id)[1],
                      ReadValue(memory, allocations, id)[2], {})
            /\ UNCHANGED <<memory, allocations, next_free, panicked>>

\* MemoryManager::update
Update(id, data) ==
    /\ ~panicked
    /\ IF ~ContainsKey(allocations, id)
       THEN /\ Called("update", id, data, "None", << >>, {})
            /\ UNCHANGED <<memory, allocations, next_free, panicked>>
       ELSE LET start == allocations[id][1]
                size == allocations[id][2]
            IN  IF ~WithinRegion(Len(data), size)
                THEN /\ Called("update", id, data, "None", << >>, {})
                     /\ UNCHANGED <<memory, allocations, next_free, panicked>>
                ELSE IF \/ ~InBounds(memory, start, start + Len(data))
                        \/ Len(data) < size /\ ~InBounds(memory, start, start + size)
                THEN Panic("update", id, data)
                ELSE /\ memory' = UpdatedMemory(memory, start, size, data)
                     /\ Called("update", id, data, "Some", << >>, {})
                     /\ UNCHANGED <<allocations, next_free, panicked>>

\* A delete that gives the space back when the region is the last one
\* below the cursor.
DeleteReclaiming(id) ==
    /\ ~panicked
    /\ IF ~ContainsKey(allocations, id)
       THEN /\ Called("delete", id, << >>, "None", << >>, {})
            /\ UNCHANGED <<memory, allocations, next_free, panicked>>
       ELSE LET start == allocations[id][1]
                size == allocations[id][2]
            IN  /\ allocations' = MapRemove(allocations, id)
                /\ memory' = DeletedMemory(memory, start, size)
                /\ next_free' = IF start + size = next_free THEN start
                                                            ELSE next_free
                /\ Called("delete", id, << >>, "Some", << >>, {})
                /\ UNCHANGED panicked

\* MemoryManager::delete
Delete(id) ==
    /\ ~panicked
    /\ IF ~ContainsKey(allocations, id)
       THEN /\ Called("delete", id, << >>, "None", << >>, {})
            /\ UNCHANGED <<memory, allocations, next_free, panicked>>
       ELSE LET start == allocations[id][1]
                size == allocations[id][2]
            IN  IF ~InBounds(memory, start, start + size)
                THEN /\ allocations' = MapRemove(allocations, id)
                     /\ panicked' = TRUE
                     /\ Called("delete", id, << >>, "Panic", << >>, {})
                     /\ UNCHANGED <<memory, next_free>>
                ELSE /\ allocations' = MapRemove(allocations, id)
                     /\ memory' = DeletedMemory(memory, start, size)
                     /\ Called("delete", id, << >>, "Some", << >>, {})
                     /\ UNCHANGED <<next_free, panicked>>

\* MemoryManager::dump
Dump ==
    /\ ~panicked
    /\ IF \E id \in DOMAIN allocations :
            ~InBounds(memory, allocations[id][1],
                      allocations[id][1] + allocations[id][2])
       THEN Panic("dump", 0, << >>)
       ELSE /\ Called("dump", 0, << >>, "Unit", << >>,
                      DumpLines(memory, allocations))
            /\ UNCHANGED <<memory, allocations, next_free, panicked>>

Next ==
    \/ \E id \in Ids, data \in Data : Insert(id, data)
    \/ \E id \in Ids : Read(id)
    \/ \E id \in Ids, data \in Data : Update(id, data)
    \/ \E id \in Ids : Delete(id)
    \/ Dump

Spec == Init /\ [][Next]_vars

\* The short arena with every payload, and the arena of the concrete
\* scenario with the scenario's inserts, reads and dumps.
InitArenas == Init \/ InitScenario

NextScenario ==
    \/ \E id \in ScenarioIds, data \in ScenarioData : Insert(id, data)
    \/ \E id \in ScenarioIds : Read(id)
    \/ Dump

NextArenas ==
    \/ MemLen(memory) = Capacity /\ Next
    \/ MemLen(memory) = ScenarioCapacity /\ NextScenario

SpecArenas == InitArenas /\ [][NextArenas]_vars

\* The short arena with one id more, so that three ids can be live at once.
ThreeIds == 1..3

NextThreeIds ==
    \/ \E id \in ThreeIds, data \in Data : Insert(id, data)
    \/ \E id \in ThreeIds : Read(id)
    \/ \E id \in ThreeIds, data \in Data : Update(id, data)
    \/ \E id \in ThreeIds : Delete(id)
    \/ Dump

SpecThreeIds == Init /\ [][NextThreeIds]_vars

\* ------------------------------------------------------------ observations
\* What the properties below speak about, written out on the state itself.
Present(id) == id \in DOMAIN allocations

StartOf(id) == allocations[id][1]

SizeOf(id) == allocations[id][2]

\* The bytes of the arena at [start, start + size).
BytesAt(mem, start, size) == [i \in 1..size |-> mem[start + i - 1]]

\* The bytes stored for a live id.
Stored(id) == BytesAt(memory, StartOf(id), SizeOf(id))

ArenaLen == Cardinality(DOMAIN memory)

Remaining == ArenaLen - next_free

\* ------------------------------------------------------------------ claims
\* C1: round trip.  For an id absent from the table and a payload no longer
\* than the remaining capacity, insert succeeds and the id's region then
\* holds exactly the payload; a read of the id right after a successful
\* insert returns exactly the inserted bytes.
C1_RoundTrip ==
    [][ /\ (op' = "insert" /\ ~Present(argId') /\ Len(argData') <= Remaining)
              => /\ result' = "Some"
                 /\ argId' \in DOMAIN allocations'
                 /\ BytesAt(memory', allocations'[argId'][1],
                            allocations'[argId'][2]) = argData'
        /\ (op = "insert" /\ result = "Some" /\ op' = "read" /\ argId' = argId)
              => /\ result' = "Some"
                 /\ ret' = argData ]_vars

\* A payload that fills the arena, with a zero and a non-zero byte, was
\* inserted.
C1_Witness ==
    /\ op = "insert"
    /\ result = "Some"
    /\ Remaining = 0
    /\ Len(argData) = ArenaLen
    /\ \E i \in DOMAIN argData : argData[i] # 0
    /\ \E i \in DOMAIN argData : argData[i] = 0

\* C2: after a successful insert(id, d) and a following update(id, d2), a
\* read of id returns exactly d2.
C2_UpdateThenReadReturnsNewData ==
    [][ (op = "insert" /\ result = "Some" /\ op' = "update" /\ argId' = argId)
            => /\ argId \in DOMAIN allocations'
               /\ BytesAt(memory', allocations'[argId][1],
                          allocations'[argId][2]) = argData' ]_vars

\* C3: no duplicate insert.  An insert of an id that is present fails,
\* whatever the payload, and leaves arena, table and cursor unchanged, so
\* that the bytes stored for the id are the same as before.
C3_NoDuplicateInsert ==
    [][ (op' = "insert" /\ Present(argId'))
            => /\ result' = "None"
               /\ memory' = memory
               /\ allocations' = allocations
               /\ next_free' = next_free
               /\ BytesAt(memory', allocations'[argId'][1],
                          allocations'[argId'][2]) = Stored(argId') ]_vars

\* A non-empty payload that would have fit was refused for a live id.
C3_Witness ==
    /\ op = "insert"
    /\ result = "None"
    /\ Present(argId)
    /\ Len(argData) > 0
    /\ Len(argData) <= Remaining

\* C4: capacity boundary.  For an absent id, insert fails exactly when
\* free_cursor + len(d) > C; a failing insert changes nothing; an insert
\* of exactly the remaining length succeeds and leaves free_cursor = C.
C4_CapacityBoundary ==
    [][ (op' = "insert" /\ ~Present(argId'))
            => /\ (result' = "None") <=> (next_free + Len(argData') > ArenaLen)
               /\ (result' = "None")
                     => /\ memory' = memory
                        /\ allocations' = allocations
                        /\ next_free' = next_free
               /\ (Len(argData') = Remaining)
                     => /\ result' = "Some"
                        /\ next_free' = ArenaLen ]_vars

\* An insert of an absent id was refused for being one byte too long.
C4_Witness ==
    /\ op = "insert"
    /\ result = "None"
    /\ ~Present(argId)
    /\ next_free > 0
    /\ Len(argData) = Remaining + 1

\* The states of the concrete scenario on the arena of ScenarioCapacity
\* bytes: after insert(1, "Hello"), insert(2, "Rust") and insert(3, "X").
Hello == <<72, 101, 108, 108, 111>>

Rust == <<82, 117, 115, 116>>

ScenarioFresh ==
    /\ ArenaLen = ScenarioCapacity
    /\ allocations = << >>
    /\ next_free = 0

ScenarioAfter1 ==
    /\ ArenaLen = ScenarioCapacity
    /\ DOMAIN allocations = {1}
    /\ allocations[1] = <<0, 5>>
    /\ next_free = 5

ScenarioAfter2 ==
    /\ ArenaLen = ScenarioCapacity
    /\ DOMAIN allocations = {1, 2}
    /\ allocations[1] = <<0, 5>>
    /\ allocations[2] = <<5, 4>>
    /\ next_free = 9

ScenarioAfter3 ==
    /\ ArenaLen = ScenarioCapacity
    /\ DOMAIN allocations = {1, 2, 3}
    /\ allocations[1] = <<0, 5>>
    /\ allocations[2] = <<5, 4>>
    /\ allocations[3] = <<9, 1>>
    /\ next_free = 10

\* C5: a successful insert(id, d) writes d into [F, F + len(d)) where F is
\* the cursor before the call, adds the entry id -> (F, len(d)), sets the
\* cursor to F + len(d) and changes no other arena byte and no other table
\* entry.  On an arena of 10 bytes, insert(1, "Hello"), insert(2, "Rust"),
\* insert(3, "X"), insert(4, "Y") give ok with cursor 5, ok with cursor 9,
\* ok with cursor 10, and a failure.
C5_InsertEffect ==
    [][ /\ (op' = "insert" /\ result' = "Some")
              => /\ \A i \in 1..Len(argData') :
                        memory'[next_free + i - 1] = argData'[i]
                 /\ \A i \in DOMAIN memory :
                        (i < next_free \/ i >= next_free + Len(argData'))
                            => memory'[i] = memory[i]
                 /\ DOMAIN allocations' = DOMAIN allocations \cup {argId'}
                 /\ allocations'[argId'] = <<next_free, Len(argData')>>
                 /\ \A k \in DOMAIN allocations :
                        k # argId' => allocations'[k] = allocations[k]
                 /\ next_free' = next_free + Len(argData')
        /\ (ScenarioFresh /\ op' = "insert" /\ argId' = 1 /\ argData' = Hello)
              => result' = "Some" /\ ScenarioAfter1'
        /\ (ScenarioAfter1 /\ op' = "insert" /\ argId' = 2 /\ argData' = Rust)
              => result' = "Some" /\ ScenarioAfter2'
        /\ (ScenarioAfter2 /\ op' = "insert" /\ argId' = 3 /\ argData' = <<88>>)
              => result' = "Some" /\ ScenarioAfter3'
        /\ (ScenarioAfter3 /\ op' = "insert" /\ argId' = 4 /\ argData' = <<89>>)
              => result' = "None" /\ ScenarioAfter3' ]_vars

\* The fourth insert of the scenario was refused on the full arena.
C5_Witness ==
    /\ ScenarioAfter3
    /\ Stored(1) = Hello
    /\ Stored(2) = Rust
    /\ Stored(3) = <<88>>
    /\ op = "insert"
    /\ argId = 4
    /\ argData = <<89>>
    /\ result = "None"

C7_UpdateZeroPads ==
    [][ /\ (op' = "update" /\ Present(argId') /\ Len(argData') <= SizeOf(argId'))
              => /\ result' = "Some"
                 /\ \A i \in 1..Len(argData') :
                        memory'[StartOf(argId') + i - 1] = argData'[i]
                 /\ \A j \in (StartOf(argId') + Len(argData'))
                               .. (StartOf(argId') + SizeOf(argId') - 1) :
                        memory'[j] = 0
                 /\ allocations' = allocations
                 /\ next_free' = next_free
        /\ (op = "update" /\ result = "Some" /\ op' = "read" /\ argId' = argId)
              => /\ result' = "Some"
                 /\ Len(ret') = SizeOf(argId)
                 /\ ret' = argData
                            \o [i \in 1..(SizeOf(argId) - Len(argData)) |-> 0] ]_vars

\* A non-empty payload shorter than the region was written.
C7_Witness ==
    /\ op = "update"
    /\ result = "Some"
    /\ Len(argData) > 0
    /\ Len(argData) < SizeOf(argId)
    /\ \E i \in DOMAIN argData : argData[i] # 0

\* C8: delete zeroes and forgets, cursor unaffected.  For a live id with
\* region (start, s), delete succeeds, sets every byte of [start, start + s)
\* to 0, removes the id from the table, so that a read of it reports not
\* found, and leaves the cursor at its value F; a successful insert is
\* placed at the cursor, never below it where the vacated regions lie.
C8_DeleteZeroesAndForgets ==
    [][ /\ (op' = "delete" /\ Present(argId'))
              => /\ result' = "Some"
                 /\ \A i \in StartOf(argId') .. (StartOf(argId') + SizeOf(argId') - 1) :
                        memory'[i] = 0
                 /\ argId' \notin DOMAIN allocations'
                 /\ next_free' = next_free
        /\ (op = "delete" /\ result = "Some" /\ op' = "read" /\ argId' = argId)
              => result' = "None"
        /\ (op' = "insert" /\ result' = "Some")
              => /\ allocations'[argId'][1] = next_free
                 /\ \A i \in DOMAIN memory :
                        i < next_free => memory'[i] = memory[i] ]_vars

\* Every region below the cursor was deleted, and the insert that followed
\* was placed at the cursor, behind the vacated bytes.
C8_Witness ==
    /\ op = "insert"
    /\ result = "Some"
    /\ DOMAIN allocations = {argId}
    /\ StartOf(argId) > 0
    /\ SizeOf(argId) > 0
    /\ \A i \in 0..(StartOf(argId) - 1) : memory[i] = 0

\* C9: across every step, the cursor never decreases; it changes only on a
\* successful insert, and then by exactly the length of the payload.
C9_CursorMonotone ==
    [][ /\ next_free' >= next_free
        /\ next_free' # next_free => (op' = "insert" /\ result' = "Some")
        /\ (op' = "insert" /\ result' = "Some")
              => next_free' = next_free + Len(argData')
        /\ (op' = "insert" /\ result' = "None") => next_free' = next_free
        /\ op' \in {"read", "update", "delete", "dump"}
              => next_free' = next_free ]_vars

\* A delete of the last live id left the cursor above zero.
C9_Witness ==
    /\ op = "delete"
    /\ result = "Some"
    /\ allocations = << >>
    /\ next_free > 0

\* C10: every table entry (start, size) has start + size <= free_cursor,
\* and free_cursor <= C.
C10_EntriesBelowCursor ==
    /\ \A id \in DOMAIN allocations :
            allocations[id][1] + allocations[id][2] <= next_free
    /\ next_free <= ArenaLen

\* The arena is full and a non-empty region ends at the cursor.
C10_Witness ==
    /\ next_free = ArenaLen
    /\ \E id \in DOMAIN allocations :
            SizeOf(id) > 0 /\ StartOf(id) + SizeOf(id) = next_free

\* The offsets of the region of a live id.
OffsetsOf(id) == {i \in DOMAIN memory : StartOf(id) <= i /\ i < StartOf(id) + SizeOf(id)}

\* C11: the byte ranges of any two distinct live ids are disjoint.
C11_RegionsDisjoint ==
    \A i \in DOMAIN allocations : \A j \in DOMAIN allocations :
        i # j => /\ OffsetsOf(i) \cap OffsetsOf(j) = {}
                 /\ \/ StartOf(i) + SizeOf(i) <= StartOf(j)
                    \/ StartOf(j) + SizeOf(j) <= StartOf(i)

\* Two non-empty regions are live, one right behind the other.
C11_Witness ==
    \E i \in DOMAIN allocations : \E j \in DOMAIN allocations :
        /\ i # j
        /\ SizeOf(i) > 0
        /\ SizeOf(j) > 0
        /\ StartOf(i) + SizeOf(i) = StartOf(j)

\* C12: every arena byte outside the regions of all live ids is 0: the
\* bytes at and above the cursor and the bytes of deleted regions.
C12_BytesOutsideLiveRegionsAreZero ==
    \A i \in DOMAIN memory :
        (\A id \in DOMAIN allocations : i \notin OffsetsOf(id)) => memory[i] = 0

\* A region below a live region with a non-zero byte was deleted.
C12_Witness ==
    /\ op = "delete"
    /\ result = "Some"
    /\ \E id \in DOMAIN allocations :
            /\ StartOf(id) > 0
            /\ \E i \in OffsetsOf(id) : memory[i] # 0
            /\ \A i \in 0..(StartOf(id) - 1) :
                    \A k \in DOMAIN allocations : i \notin OffsetsOf(k)

\* Whether a payload of n bytes is too long for what is left of the arena.
NoRoomFor(n) == next_free + n > ArenaLen

\* C13: once an insert of n bytes has failed for lack of space, every later
\* insert of at least n bytes fails, with any id and whatever updates and
\* deletes come in between.  Step by step: the failure leaves no room for n
\* bytes, no step makes room again, and without room for n bytes an insert
\* of at least n bytes fails.
C13_NoRoomIsForever ==
    [][ \A n \in 0..(ArenaLen + 1) :
            /\ (op' = "insert" /\ result' = "None" /\ ~Present(argId')
                    /\ Len(argData') = n)
                  => NoRoomFor(n)'
            /\ NoRoomFor(n) => NoRoomFor(n)'
            /\ (NoRoomFor(n) /\ op' = "insert" /\ Len(argData') >= n)
                  => result' = "None" ]_vars

\* Every id was deleted, and a payload that an empty arena holds was
\* refused all the same.
C13_Witness ==
    /\ op = "insert"
    /\ result = "None"
    /\ allocations = << >>
    /\ Len(argData) > 0
    /\ Len(argData) <= ArenaLen
    /\ \A i \in DOMAIN memory : memory[i] = 0

\* C14: identifier reuse.  A successful delete leaves the id absent; an
\* insert of the same id that fits then succeeds, its region starts at the
\* cursor of that moment, which lies above the start of the old region
\* unless that region was empty, and the id's bytes are the new payload.
C14_IdentifierReuse ==
    [][ /\ (op' = "delete" /\ Present(argId'))
              => /\ result' = "Some"
                 /\ argId' \notin DOMAIN allocations'
                 /\ SizeOf(argId') > 0 => StartOf(argId') < next_free'
        /\ (op = "delete" /\ result = "Some" /\ op' = "insert"
                /\ argId' = argId /\ Len(argData') <= Remaining)
              => /\ result' = "Some"
                 /\ allocations'[argId'] = <<next_free, Len(argData')>>
                 /\ BytesAt(memory', next_free, Len(argData')) = argData'
        /\ (op = "insert" /\ result = "Some" /\ op' = "read" /\ argId' = argId
                /\ StartOf(argId) > 0)
              => ret' = argData
        /\ next_free' >= next_free ]_vars

\* Every other id holds an empty region at offset 0, so the vacated bytes
\* below the region of the id just inserted were that id's own.
C14_Witness ==
    /\ op = "insert"
    /\ result = "Some"
    /\ DOMAIN allocations = Ids
    /\ StartOf(argId) > 0
    /\ SizeOf(argId) > 0
    /\ \E i \in DOMAIN argData : argData[i] # 0
    /\ \A k \in DOMAIN allocations :
            k # argId => StartOf(k) = 0 /\ SizeOf(k) = 0
    /\ \A i \in 0..(StartOf(argId) - 1) : memory[i] = 0

\* C15: read and dump change nothing.  read returns exactly the size bytes
\* of the id's recorded region when the id is live and not-found when it is
\* absent.  update and delete of an absent id fail and change nothing.
C15_ReadOnlyAndNotFound ==
    [][ /\ op' \in {"read", "dump"}
              => /\ memory' = memory
                 /\ allocations' = allocations
                 /\ next_free' = next_free
        /\ (op' = "read" /\ Present(argId'))
              => /\ result' = "Some"
                 /\ Len(ret') = SizeOf(argId')
                 /\ ret' = Stored(argId')
        /\ (op' = "read" /\ ~Present(argId'))
              => result' = "None"
        /\ (op' \in {"update", "delete"} /\ ~Present(argId'))
              => /\ result' = "None"
                 /\ memory' = memory
                 /\ allocations' = allocations
                 /\ next_free' = next_free ]_vars

\* A region was read that has a non-zero byte right behind it.
C15_Witness ==
    /\ op = "read"
    /\ result = "Some"
    /\ Len(ret) > 0
    /\ StartOf(argId) + SizeOf(argId) < ArenaLen
    /\ memory[StartOf(argId) + SizeOf(argId)] # 0

LinesOf(id) == {line \in out : line[1] = id}

\* C17: dump completeness.  After any sequence of inserts, updates and
\* deletes, dump() prints exactly one line for every live id, with the id's
\* current start, its size and the current bytes of its region, and no line
\* for any other id.
C17_DumpCarriesBytes ==
    op = "dump"
        => /\ \A line \in out : line[1] \in DOMAIN allocations
           /\ \A id \in DOMAIN allocations :
                /\ Cardinality(LinesOf(id)) = 1
                /\ \A line \in LinesOf(id) :
                      /\ line[2] = StartOf(id)
                      /\ line[3] = SizeOf(id)
                      /\ line[4] = Stored(id)

\* C17, amended: dump() prints exactly one line for every live id, with the
\* id's current start, its size and the current bytes of its region decoded
\* as text: a byte that is text stands for itself, a byte that is not valid
\* UTF-8 is shown as U+FFFD; there is no line for any other id.
C17_DumpCompleteness ==
    op = "dump"
        => /\ \A line \in out : line[1] \in DOMAIN allocations
           /\ \A id \in DOMAIN allocations :
                /\ Cardinality(LinesOf(id)) = 1
                /\ \A line \in LinesOf(id) :
                      /\ line[2] = StartOf(id)
                      /\ line[3] = SizeOf(id)
                      /\ Len(line[4]) = SizeOf(id)
                      /\ \A i \in 1..SizeOf(id) :
                            /\ Stored(id)[i] < 128 => line[4][i] = Stored(id)[i]
                            /\ Stored(id)[i] >= 128 => line[4][i] = 65533

\* A dump of two live ids, one of them behind a deleted region and holding a
\* byte that is not text.
C17_Witness ==
    /\ op = "dump"
    /\ Cardinality(out) = 2
    /\ \E id \in DOMAIN allocations :
            /\ StartOf(id) > 0
            /\ \E i \in OffsetsOf(id) : memory[i] >= 128
            /\ \A k \in DOMAIN allocations : 0 \notin OffsetsOf(k)

\* C18: no operation indexes the arena out of bounds: no call panics, and
\* every range a call slices or indexes, [start, start + size) of a live
\* entry or [next_free, next_free + len) of an insert that passed the space
\* check, lies within [0, C], also for empty regions that start at C.
C18_NoPanic ==
    /\ ~panicked
    /\ result # "Panic"
    /\ 0 <= next_free /\ next_free <= ArenaLen
    /\ \A id \in DOMAIN allocations :
            /\ 0 <= StartOf(id)
            /\ StartOf(id) <= StartOf(id) + SizeOf(id)
            /\ StartOf(id) + SizeOf(id) <= ArenaLen

\* An empty region that starts at the end of the arena was updated with an
\* empty payload.
C18_Witness ==
    /\ op = "update"
    /\ result = "Some"
    /\ argData = << >>
    /\ StartOf(argId) = ArenaLen
    /\ SizeOf(argId) = 0

\* C19: isolation between ids.  A call of update, delete or insert for
\* another id leaves the entry of a live id j and the bytes read for j as
\* they were; the entry of an id does not change while the id is live, and
\* an id leaves the table only by its own successful delete.
C19_Isolation ==
    [][ \A j \in DOMAIN allocations :
            /\ (op' \in {"insert", "update", "delete"} /\ argId' # j)
                  => /\ j \in DOMAIN allocations'
                     /\ allocations'[j] = allocations[j]
                     /\ BytesAt(memory', allocations'[j][1], allocations'[j][2])
                            = Stored(j)
            /\ j \in DOMAIN allocations' => allocations'[j] = allocations[j]
            /\ j \notin DOMAIN allocations'
                  => (op' = "delete" /\ argId' = j /\ result' = "Some") ]_vars

\* A third id was inserted with a non-empty payload while two other ids
\* were live, one of them with a non-zero byte.
C19_Witness ==
    /\ op = "insert"
    /\ result = "Some"
    /\ Len(argData) > 0
    /\ Cardinality(DOMAIN allocations) = 3
    /\ \E j \in DOMAIN allocations :
            j # argId /\ \E i \in OffsetsOf(j) : memory[i] # 0

\* C20: zero-length payloads.  An insert of the empty payload with an
\* absent id succeeds in every state, also when the arena is full, leaves
\* the cursor and the arena unchanged and records the entry (cursor, 0); a
\* read of the id then returns the empty sequence.  So every id can be
\* live in a full arena, and live entries can share a start offset.
C20_EmptyPayload ==
    [][ /\ (op' = "insert" /\ ~Present(argId') /\ argData' = << >>)
              => /\ result' = "Some"
                 /\ next_free' = next_free
                 /\ memory' = memory
                 /\ argId' \in DOMAIN allocations'
                 /\ allocations'[argId'] = <<next_free, 0>>
        /\ (op = "insert" /\ result = "Some" /\ argData = << >>
                /\ op' = "read" /\ argId' = argId)
              => /\ result' = "Some"
                 /\ ret' = << >> ]_vars

\* The arena is full, and every id is live with an empty region at its end.
C20_Witness ==
    /\ op = "insert"
    /\ result = "Some"
    /\ argData = << >>
    /\ next_free = ArenaLen
    /\ DOMAIN allocations = Ids
    /\ \A k \in DOMAIN allocations : StartOf(k) = ArenaLen /\ SizeOf(k) = 0

====
